---- MODULE Spec2Model ----
(***************************************************************************)
(* Replication core of the collaborative whiteboard (Whiteboard component, *)
(* src/unnamed/part_001).  Each client owns a fabric canvas (its store), a *)
(* socket to the relay, three change-observer listeners on the canvas      *)
(* (object:added / object:modified / object:removed) and five inbound      *)
(* socket listeners (object:added, object:modified, object:removed,        *)
(* canvas:clear, object:sync).  JavaScript runs every listener to          *)
(* completion, so one action is one listener run; the two listeners that   *)
(* call util.enlivenObjects(...).then(...) are split at the promise: the   *)
(* receipt queues the continuation, a later step runs it.                  *)
(***************************************************************************)
EXTENDS Integers, Sequences, FiniteSets, TLC

\* ---------------------------------------------------------------- bounds
MaxOps == 3        \* user gestures in a session of A and B alone
MaxSoloOps == 1    \* user gestures of A in a session with members that are not modelled
MaxInject == 1     \* messages that reach A from members that are not modelled
MaxBurst == 2      \* the same, in a session where such messages follow one another
MaxSnap == 1       \* objects in the relay's join-time snapshot
MaxInit == 2       \* invocations of init() on one Whiteboard component

\* ---------------------------------------------------------------- values
Clients == {"A", "B"}
Keys == {"left", "top"}
Vals == {0, 1}
NoId == <<"none", 0>>
SnapIds == {<<"S", k>> : k \in 1..MaxSnap}
FullBags == [Keys -> Vals]
\* Geometry a gesture can give an object: a point on the diagonal.
UserBags == {b \in FullBags : \A j, k \in Keys : b[j] = b[k]}
\* Attribute parts a payload may carry: a whole bag, or one property alone.
WireBags == UserBags \cup UNION {[{k} -> Vals] : k \in Keys}
NoMsg == [kind |-> "none"]

\* src/unnamed/part_001:19-21  uuidv4(): a value no other call returns.
generateId(c, n) == <<c, n>>

\* fabric gives a property the payload does not mention its default value.
DefaultBag == [k \in Keys |-> 0]

Fill(bag) == [k \in Keys |-> IF k \in DOMAIN bag THEN bag[k] ELSE DefaultBag[k]]

\* obj.toJSON(['id']): the attribute bag and the id, never __skipEmit.
toJSON(obj) == [id |-> obj.id, attrs |-> obj.attrs]

Ev(kind, obj) == [kind |-> kind, id |-> toJSON(obj).id, attrs |-> toJSON(obj).attrs]

\* util.enlivenObjects([data]): a fresh object, not marked, id as in the payload.
enlivenObject(data) == [id |-> data.id, attrs |-> Fill(data.attrs), skipEmit |-> FALSE]

enlivenObjects(datas) == [k \in 1..Len(datas) |-> enlivenObject(datas[k])]

\* A payload fabric cannot build an object from: its type names no class.
BadBag == [type |-> "?"]

\* util.enlivenObjects(datas) rejects when one of the payloads cannot be built.
Rejects(datas) == \E k \in 1..Len(datas) : datas[k].attrs = BadBag

\* The promise util.enlivenObjects(datas) returns, made on behalf of message m.
Promise(kind, m, datas) ==
  [kind |-> kind, msg |-> m, rejected |-> Rejects(datas),
   objects |-> IF Rejects(datas) THEN <<>> ELSE enlivenObjects(datas)]

\* ------------------------------------------------------- the canvas store
\* A canvas operation runs on st = [objs, gen, out]: the object list, the number
\* of ids this client has generated, and the events emitted so far in this run.
St(objs, gen) == [objs |-> objs, gen |-> gen, out |-> <<>>]

RemoveAt(s, i) == [k \in 1..(Len(s) - 1) |-> IF k < i THEN s[k] ELSE s[k + 1]]

\* canvas.getObjects().find((o) => o.get('id') === id): first match, 0 if none.
Find(objs, id) ==
  IF \E k \in 1..Len(objs) : objs[k].id = id
  THEN CHOOSE k \in 1..Len(objs) : objs[k].id = id /\ \A j \in 1..(k - 1) : objs[j].id # id
  ELSE 0

\* The change observer without its identity assignment.
AssignIdNever(c, obj, gen) == obj

\* if (!e.target.id) e.target.id = generateId()
AssignId(c, obj, gen) ==
  IF obj.id = NoId THEN [obj EXCEPT !.id = generateId(c, gen + 1)] ELSE obj

\* canvas.on('object:added'): assign an id if missing, emit unless marked.
OnObjectAdded(c, st, k) ==
  LET obj == AssignId(c, st.objs[k], st.gen)
  IN [objs |-> [st.objs EXCEPT ![k] = obj],
      gen |-> IF st.objs[k].id = NoId THEN st.gen + 1 ELSE st.gen,
      out |-> IF obj.skipEmit THEN st.out ELSE Append(st.out, Ev("object:added", obj))]

\* canvas.on('object:modified')
OnObjectModified(st, obj) ==
  [st EXCEPT !.out = IF obj.skipEmit THEN st.out ELSE Append(st.out, Ev("object:modified", obj))]

\* The observer that puts its event ahead of those already emitted.
OnObjectRemovedAhead(st, obj) ==
  [st EXCEPT !.out = IF obj.skipEmit THEN st.out ELSE <<Ev("object:removed", obj)>> \o st.out]

\* canvas.on('object:removed')
OnObjectRemoved(st, obj) ==
  [st EXCEPT !.out = IF obj.skipEmit THEN st.out ELSE Append(st.out, Ev("object:removed", obj))]

\* canvas.add(obj): insert at the end, then fire object:added.
CanvasAdd(c, st, obj) ==
  OnObjectAdded(c, [st EXCEPT !.objs = Append(st.objs, obj)], Len(st.objs) + 1)

\* canvas.remove(obj): take it out, then fire object:removed.
CanvasRemove(st, k) ==
  OnObjectRemoved([st EXCEPT !.objs = RemoveAt(st.objs, k)], st.objs[k])

\* canvas.clear(): remove(...getObjects()), object:removed fired for each in order.
RECURSIVE CanvasClear(_)
CanvasClear(st) ==
  IF st.objs = <<>> THEN st ELSE CanvasClear(CanvasRemove(st, 1))

\* An inbound listener that forgets to mark the object.
MarkExternalNever(obj) == obj

\* obj.__skipEmit = true
MarkExternal(obj) == [obj EXCEPT !.skipEmit = TRUE]

\* The overwrite that loses the identity the object was looked up by.
SetAllLosingId(obj, data) ==
  [obj EXCEPT !.id = NoId,
              !.attrs = [k \in Keys |-> IF k \in DOMAIN data.attrs THEN data.attrs[k] ELSE obj.attrs[k]]]

\* obj.set({ ...objectData }): each key of the payload overwrites, the rest stay.
SetAll(obj, data) ==
  [obj EXCEPT !.id = data.id,
              !.attrs = [k \in Keys |-> IF k \in DOMAIN data.attrs THEN data.attrs[k] ELSE obj.attrs[k]]]

\* ------------------------------------------------ inbound listener bodies
\* The continuation without its lookup.
AlreadyPresentNever(objs, obj) == FALSE

\* canvas.getObjects().find((o) => o.get('id') === obj.get('id'))
AlreadyPresent(objs, obj) == Find(objs, obj.id) # 0

\* The continuation that adds without looking.
ThenAddedUnchecked(c, st, obj) == CanvasAdd(c, st, MarkExternal(obj))

\* socket.on('object:added') continuation: add once, marked.
ThenAdded(c, st, obj) ==
  IF AlreadyPresent(st.objs, obj) THEN st ELSE CanvasAdd(c, st, MarkExternal(obj))

\* The listener that creates the object it does not find.
ApplyModifiedUpsert(st, data) ==
  LET k == Find(st.objs, data.id)
  IN IF k = 0 THEN [st EXCEPT !.objs = Append(@, MarkExternal(enlivenObject(data)))]
     ELSE [st EXCEPT !.objs[k] = SetAll(MarkExternal(st.objs[k]), data)]

\* The handler that wipes the canvas when an object cannot be built.
CatchAddedClears(st) == CanvasClear(st)

\* .catch(console.error): the failure is logged, the canvas is not touched.
CatchAdded(st) == st

\* socket.on('object:modified')
ApplyModified(st, data) ==
  LET k == Find(st.objs, data.id)
  IN IF k = 0 THEN st
     ELSE [st EXCEPT !.objs[k] = SetAll(MarkExternal(st.objs[k]), data)]

\* socket.on('object:removed')
ApplyRemoved(st, data) ==
  LET k == Find(st.objs, data.id)
  IN IF k = 0 THEN st
     ELSE CanvasRemove([st EXCEPT !.objs[k] = MarkExternal(st.objs[k])], k)

\* The listener that spares the objects that came from the network.
ApplyClearUnmarked(st) == [st EXCEPT !.objs = SelectSeq(st.objs, LAMBDA o : o.skipEmit)]

\* socket.on('canvas:clear')
ApplyClear(st) == CanvasClear(st)

RECURSIVE AddAllMarked(_, _, _)
AddAllMarked(c, st, objects) ==
  IF objects = <<>> THEN st
  ELSE AddAllMarked(c, CanvasAdd(c, st, MarkExternal(Head(objects))), Tail(objects))

\* The continuation without canvas.clear().
ThenSyncNoClear(c, st, objects) == AddAllMarked(c, st, objects)

\* socket.on('object:sync') continuation: clear, then add every object marked.
ThenSync(c, st, objects) == AddAllMarked(c, CanvasClear(st), objects)

\* ---------------------------------------------------------------- state
VARIABLES
  canvas,   \* canvas[c]: the objects of client c's canvas, in insertion order
  gen,      \* gen[c]: how many ids generateId() has returned at client c
  chan,     \* chan[c]: messages the relay has sent to c that c has not yet handled
  pending,  \* pending[c]: enlivenObjects promises whose continuation has not run
  members,  \* the session members that are modelled (the others only send)
  ops,      \* user gestures still to come
  inj,      \* messages still to come from members that are not modelled
  last,     \* the listener run that produced this state, and what it emitted
  prev,     \* the inbound object:modified or object:removed run just before it, if any
  hist,     \* hist[c]: the (kind, id) of every user edit made at c
  preSync,  \* a user edited a canvas that had not yet applied its join-time snapshot
  life      \* life[c]: the Whiteboard component of c: its init() calls and what they left

vars == <<canvas, gen, chan, pending, members, ops, inj, last, prev, hist, preSync, life>>

\* A component that has rendered and not yet run its init effect.
Mounted ==
  [calls |-> 0, waiting |-> 0, isInitialized |-> FALSE, sockets |-> 0, listeners |-> 0, mounted |-> TRUE]

\* A component whose one init() call has run to its end.
Running ==
  [calls |-> 1, waiting |-> 0, isInitialized |-> TRUE, sockets |-> 1, listeners |-> 1, mounted |-> TRUE]

\* canvas.on(...) and socket.on(...) have been called by an init() that finished.
Listening(c) == c \in members /\ life[c].listeners >= 1

\* The canvas element is on the page, so pointer gestures reach the canvas.
OnPage(c) == Listening(c) /\ life[c].mounted

\* The relay forwards each event to every other session member, in arrival order.
Relay(ch, c, evs) == [d \in Clients |-> IF d \in members \ {c} THEN ch[d] \o evs ELSE ch[d]]

\* The scenes the relay may hold: n <= MaxSnap objects S1..Sn, each moved off the
\* default position.
SnapBag == [k \in Keys |-> 1]

Snapshots ==
  {[k \in 1..n |-> [id |-> <<"S", k>>, attrs |-> SnapBag]] : n \in 0..MaxSnap}

SyncMsg(objects) == [kind |-> "object:sync", objects |-> objects]

Snapshot(objects) ==
  \A i, j \in 1..Len(objects) : objects[i].id = objects[j].id => i = j

\* Ids an event from another session member may name: the snapshot's, those the
\* modelled members have generated so far, or none (a malformed payload).
WireIds ==
  SnapIds \cup UNION {{generateId(c, n) : n \in 1..gen[c]} : c \in members} \cup {NoId}

\* Payloads: object:added carries a toJSON() of the sender's object, the others
\* may carry any part of one.
WireMsgs ==
  [kind : {"object:added"}, id : WireIds, attrs : UserBags]
  \cup [kind : {"object:modified"}, id : WireIds, attrs : WireBags]
  \cup [kind : {"object:removed"}, id : WireIds, attrs : {<<>>}]
  \cup {[kind |-> "canvas:clear"]}
  \cup {SyncMsg(o) : o \in {s \in Snapshots : Snapshot(s)}}

\* Payloads of those kinds that util.enlivenObjects cannot build: an Added of an
\* unknown type, a snapshot with such an object in it.
BrokenMsgs ==
  [kind : {"object:added"}, id : WireIds, attrs : {BadBag}]
  \cup UNION {{SyncMsg([s EXCEPT ![k].attrs = BadBag]) : k \in 1..Len(s)} : s \in {t \in Snapshots : Snapshot(t)}}

NoRun == [op |-> "init", who |-> "none", msg |-> NoMsg, hit |-> FALSE, out |-> <<>>]

\* After init() at every modelled member: empty canvas, listeners registered, the
\* relay's one object:sync per connection on its way.
InitSession(m, n, j) ==
  /\ members = m
  /\ canvas = [c \in Clients |-> <<>>]
  /\ gen = [c \in Clients |-> 0]
  /\ \E o \in {s \in Snapshots : Snapshot(s)} :
       chan = [c \in Clients |-> IF c \in m THEN <<SyncMsg(o)>> ELSE <<>>]
  /\ pending = [c \in Clients |-> <<>>]
  /\ ops = n
  /\ inj = j
  /\ last = NoRun
  /\ prev = NoRun
  /\ hist = [c \in Clients |-> {}]
  /\ preSync = FALSE
  /\ life = [c \in Clients |-> IF c \in m THEN Running ELSE Mounted]

\* The join-time snapshot of c has been applied.
Synced(c) ==
  /\ \A k \in 1..Len(chan[c]) : chan[c][k].kind # "object:sync"
  /\ \A k \in 1..Len(pending[c]) : pending[c][k].kind # "sync"

Run(op, c, msg, hit, out) == [op |-> op, who |-> c, msg |-> msg, hit |-> hit, out |-> out]

\* What every listener run leaves behind: the store, the emitted events handed to
\* the relay (socket.emit), and the record of the run.
Commit(c, st, ch, op, msg, hit) ==
  /\ canvas' = [canvas EXCEPT ![c] = st.objs]
  /\ gen' = [gen EXCEPT ![c] = st.gen]
  /\ chan' = Relay(ch, c, st.out)
  /\ last' = Run(op, c, msg, hit, st.out)
  /\ prev' = IF last.op \in {"applyModified", "applyRemoved"} THEN last ELSE NoRun
  /\ life' = life

UserStep(c, edits) ==
  /\ ops' = ops - 1
  /\ hist' = [hist EXCEPT ![c] = @ \cup edits]
  /\ preSync' = (preSync \/ ~Synced(c))
  /\ UNCHANGED <<pending, inj, members>>

\* ------------------------------------------------------- user gestures
\* A completed drawing gesture: canvas.add(shape) of a new object without id.
UserAdd(c) ==
  /\ OnPage(c)
  /\ ops > 0
  /\ \E a \in UserBags :
       LET st == CanvasAdd(c, St(canvas[c], gen[c]), [id |-> NoId, attrs |-> a, skipEmit |-> FALSE])
           obj == st.objs[Len(st.objs)]
       IN /\ Commit(c, st, chan, "userAdd", Ev("object:added", obj), TRUE)
          /\ UserStep(c, {<<"added", obj.id>>})

\* The user moves or resizes an object; fabric then fires object:modified.
UserModify(c) ==
  /\ OnPage(c)
  /\ ops > 0
  /\ \E k \in 1..Len(canvas[c]) : \E a \in UserBags \ {canvas[c][k].attrs} :
       LET obj == [canvas[c][k] EXCEPT !.attrs = a]
           st == OnObjectModified(St([canvas[c] EXCEPT ![k] = obj], gen[c]), obj)
       IN /\ Commit(c, st, chan, "userModify", Ev("object:modified", obj), TRUE)
          /\ UserStep(c, {<<"modified", obj.id>>})

\* handleKeyDown: Delete or Backspace removes the active object.
UserRemove(c) ==
  /\ Listening(c)
  /\ ops > 0
  /\ \E k \in 1..Len(canvas[c]) :
       LET st == CanvasRemove(St(canvas[c], gen[c]), k)
       IN /\ Commit(c, st, chan, "userRemove", Ev("object:removed", canvas[c][k]), TRUE)
          /\ UserStep(c, {<<"removed", canvas[c][k].id>>})

\* The tool effect, case 'clear': canvas.clear().
UserClear(c) ==
  /\ OnPage(c)
  /\ ops > 0
  /\ LET st == CanvasClear(St(canvas[c], gen[c]))
     IN /\ Commit(c, st, chan, "userClear", [kind |-> "canvas:clear"], canvas[c] # <<>>)
        /\ UserStep(c, {<<"removed", canvas[c][k].id>> : k \in 1..Len(canvas[c])})

\* ------------------------------------------------------ inbound listeners
\* A message reaches a listener either from the relay's queue for c (a modelled
\* peer's event, or the join-time snapshot) or straight from a member that is not
\* modelled.  ch is the queue the run leaves, j the count of such messages.
Inbound(c, kind) == Listening(c) /\ chan[c] # <<>> /\ Head(chan[c]).kind = kind

Rest(c) == [chan EXCEPT ![c] = Tail(chan[c])]

Quiet == UNCHANGED <<members, ops, hist, preSync>>

\* socket.on('object:added'): util.enlivenObjects([objectData]) is started.
OnAdded(c, m, ch) ==
  /\ pending' = [pending EXCEPT ![c] = Append(@, Promise("added", m, <<m>>))]
  /\ Commit(c, St(canvas[c], gen[c]), ch, "recvAdded", m, FALSE)
  /\ Quiet

\* socket.on('object:modified')
OnModified(c, m, ch) ==
  /\ Commit(c, ApplyModified(St(canvas[c], gen[c]), m), ch, "applyModified", m, Find(canvas[c], m.id) # 0)
  /\ UNCHANGED pending
  /\ Quiet

\* socket.on('object:removed')
OnRemoved(c, m, ch) ==
  /\ Commit(c, ApplyRemoved(St(canvas[c], gen[c]), m), ch, "applyRemoved", m, Find(canvas[c], m.id) # 0)
  /\ UNCHANGED pending
  /\ Quiet

\* socket.on('canvas:clear')
OnClear(c, m, ch) ==
  /\ Commit(c, ApplyClear(St(canvas[c], gen[c])), ch, "applyClear", m, canvas[c] # <<>>)
  /\ UNCHANGED pending
  /\ Quiet

\* socket.on('object:sync'): util.enlivenObjects(payload.objects) is started.
OnSync(c, m, ch) ==
  /\ pending' = [pending EXCEPT ![c] = Append(@, Promise("sync", m, m.objects))]
  /\ Commit(c, St(canvas[c], gen[c]), ch, "recvSync", m, FALSE)
  /\ Quiet

\* Messages forwarded by the relay from the modelled members.
RecvAdded(c) ==
  Inbound(c, "object:added") /\ OnAdded(c, Head(chan[c]), Rest(c)) /\ UNCHANGED inj

RecvModified(c) ==
  Inbound(c, "object:modified") /\ OnModified(c, Head(chan[c]), Rest(c)) /\ UNCHANGED inj

RecvRemoved(c) ==
  Inbound(c, "object:removed") /\ OnRemoved(c, Head(chan[c]), Rest(c)) /\ UNCHANGED inj

RecvSync(c) ==
  Inbound(c, "object:sync") /\ OnSync(c, Head(chan[c]), Rest(c)) /\ UNCHANGED inj

\* Messages of the members that are not modelled.
Foreign(kind) == {m \in WireMsgs : m.kind = kind}

OtherAdded(c) ==
  Listening(c) /\ inj > 0 /\ inj' = inj - 1 /\ \E m \in Foreign("object:added") : OnAdded(c, m, chan)

OtherModified(c) ==
  Listening(c) /\ inj > 0 /\ inj' = inj - 1 /\ \E m \in Foreign("object:modified") : OnModified(c, m, chan)

OtherRemoved(c) ==
  Listening(c) /\ inj > 0 /\ inj' = inj - 1 /\ \E m \in Foreign("object:removed") : OnRemoved(c, m, chan)

OtherClear(c) ==
  Listening(c) /\ inj > 0 /\ inj' = inj - 1 /\ \E m \in Foreign("canvas:clear") : OnClear(c, m, chan)

OtherSync(c) ==
  Listening(c) /\ inj > 0 /\ inj' = inj - 1 /\ \E m \in Foreign("object:sync") : OnSync(c, m, chan)

\* The same listeners, handed a payload that cannot be built.
OtherBadAdded(c) ==
  /\ Listening(c) /\ inj > 0 /\ inj' = inj - 1
  /\ \E m \in {b \in BrokenMsgs : b.kind = "object:added"} : OnAdded(c, m, chan)

OtherBadSync(c) ==
  /\ Listening(c) /\ inj > 0 /\ inj' = inj - 1
  /\ \E m \in {b \in BrokenMsgs : b.kind = "object:sync"} : OnSync(c, m, chan)

\* .then(([obj]) => { if (!find) { obj.__skipEmit = true; canvas.add(obj) } })
ResolveAdded(c) ==
  /\ \E i \in 1..Len(pending[c]) :
       /\ pending[c][i].kind = "added"
       /\ ~pending[c][i].rejected
       /\ LET obj == pending[c][i].objects[1]
          IN Commit(c, ThenAdded(c, St(canvas[c], gen[c]), obj), chan, "applyAdded",
                    pending[c][i].msg, Find(canvas[c], obj.id) # 0)
       /\ pending' = [pending EXCEPT ![c] = RemoveAt(@, i)]
  /\ UNCHANGED inj
  /\ Quiet

\* .then((objects) => { canvas.clear(); objects.forEach(mark, add) })
ResolveSync(c) ==
  /\ \E i \in 1..Len(pending[c]) :
       /\ pending[c][i].kind = "sync"
       /\ ~pending[c][i].rejected
       /\ Commit(c, ThenSync(c, St(canvas[c], gen[c]), pending[c][i].objects), chan,
                 "applySync", pending[c][i].msg, canvas[c] # <<>>)
       /\ pending' = [pending EXCEPT ![c] = RemoveAt(@, i)]
  /\ UNCHANGED inj
  /\ Quiet

\* .catch(console.error) of the object:added listener.
RejectAdded(c) ==
  /\ \E i \in 1..Len(pending[c]) :
       /\ pending[c][i].kind = "added"
       /\ pending[c][i].rejected
       /\ Commit(c, CatchAdded(St(canvas[c], gen[c])), chan, "rejectAdded", pending[c][i].msg, FALSE)
       /\ pending' = [pending EXCEPT ![c] = RemoveAt(@, i)]
  /\ UNCHANGED inj
  /\ Quiet

\* The object:sync listener has no rejection handler: its .then callback is
\* skipped and the rejection goes unhandled.
RejectSync(c) ==
  /\ \E i \in 1..Len(pending[c]) :
       /\ pending[c][i].kind = "sync"
       /\ pending[c][i].rejected
       /\ Commit(c, St(canvas[c], gen[c]), chan, "rejectSync", pending[c][i].msg, FALSE)
       /\ pending' = [pending EXCEPT ![c] = RemoveAt(@, i)]
  /\ UNCHANGED inj
  /\ Quiet

\* ------------------------------------------------------ component lifecycle
\* A lifecycle step leaves the stores alone and is the run on record.
Lifecycle(c, op, l, ch) ==
  /\ life' = [life EXCEPT ![c] = l]
  /\ chan' = ch
  /\ last' = Run(op, c, NoMsg, FALSE, <<>>)
  /\ prev' = NoRun
  /\ UNCHANGED <<canvas, gen, pending, members, ops, inj, hist, preSync>>

\* init() up to its await: return if isInitializedRef.current or no canvas
\* element, else io(url) opens a connection (the relay answers each new
\* connection with one object:sync) and the call is suspended.  The queue of c
\* is that of the first connection.
InitCall(c) ==
  /\ c \in members
  /\ life[c].calls < MaxInit
  /\ LET l == [life[c] EXCEPT !.calls = @ + 1]
     IN IF life[c].isInitialized \/ ~life[c].mounted
        THEN Lifecycle(c, "initReturn", l, chan)
        ELSE \E o \in {s \in Snapshots : Snapshot(s)} :
               Lifecycle(c, "initCall", [l EXCEPT !.sockets = @ + 1, !.waiting = @ + 1],
                         IF life[c].sockets = 0 THEN [chan EXCEPT ![c] = Append(@, SyncMsg(o))] ELSE chan)

\* init() after its await: new Canvas(canvasEl), isInitializedRef.current = true,
\* canvas.on x 3, socket.on x 5.  On an element that already carries a canvas
\* the constructor either throws, which ends the call, or builds another one.
InitResume(c) ==
  /\ c \in members
  /\ life[c].waiting > 0
  /\ \E built \in IF life[c].listeners = 0 THEN {TRUE} ELSE BOOLEAN :
       Lifecycle(c, IF built THEN "initDone" ELSE "initThrow",
                 [life[c] EXCEPT !.waiting = @ - 1,
                                 !.isInitialized = @ \/ built,
                                 !.listeners = IF built THEN @ + 1 ELSE @],
                 chan)

\* The component unmounts.  React runs the cleanup the effect callback returned;
\* the callback calls init() and returns nothing, so the closure init() resolves
\* to is never run: no listener is removed, no socket is closed.
Teardown(c) ==
  /\ c \in members
  /\ life[c].mounted
  /\ life[c].calls > 0
  /\ Lifecycle(c, "teardown", [life[c] EXCEPT !.mounted = FALSE], chan)

\* ----------------------------------------------------------- specifications
\* A and B alone in the session: every message is the snapshot or a peer's event.
InitClosed == InitSession(Clients, MaxOps, 0)

NextClosed ==
  \/ \E c \in Clients : UserAdd(c)
  \/ \E c \in Clients : UserModify(c)
  \/ \E c \in Clients : UserRemove(c)
  \/ \E c \in Clients : UserClear(c)
  \/ \E c \in Clients : RecvAdded(c)
  \/ \E c \in Clients : ResolveAdded(c)
  \/ \E c \in Clients : RecvModified(c)
  \/ \E c \in Clients : RecvRemoved(c)
  \/ \E c \in Clients : RecvSync(c)
  \/ \E c \in Clients : ResolveSync(c)

SpecClosed == InitClosed /\ [][NextClosed]_vars

\* The same session while only A's user draws and B's watches.
NextWatch ==
  \/ UserAdd("A")
  \/ UserModify("A")
  \/ UserRemove("A")
  \/ UserClear("A")
  \/ \E c \in Clients : RecvAdded(c)
  \/ \E c \in Clients : ResolveAdded(c)
  \/ \E c \in Clients : RecvModified(c)
  \/ \E c \in Clients : RecvRemoved(c)
  \/ \E c \in Clients : RecvSync(c)
  \/ \E c \in Clients : ResolveSync(c)

SpecWatch == InitClosed /\ [][NextWatch]_vars

\* A in a session whose other members are not modelled: after the snapshot, every
\* message is one of theirs.
Init == InitSession({"A"}, MaxSoloOps, MaxInject)

Next ==
  \/ \E c \in Clients : UserAdd(c)
  \/ \E c \in Clients : UserModify(c)
  \/ \E c \in Clients : UserRemove(c)
  \/ \E c \in Clients : UserClear(c)
  \/ \E c \in Clients : RecvSync(c)
  \/ \E c \in Clients : ResolveSync(c)
  \/ \E c \in Clients : ResolveAdded(c)
  \/ \E c \in Clients : OtherAdded(c)
  \/ \E c \in Clients : OtherModified(c)
  \/ \E c \in Clients : OtherRemoved(c)
  \/ \E c \in Clients : OtherClear(c)
  \/ \E c \in Clients : OtherSync(c)

Spec == Init /\ [][Next]_vars

\* The same session with room for one such message after another.
InitBurst == InitSession({"A"}, MaxSoloOps, MaxBurst)

SpecBurst == InitBurst /\ [][Next]_vars

\* The session of Spec with members that also send payloads that cannot be built.
NextFault ==
  \/ \E c \in Clients : UserAdd(c)
  \/ \E c \in Clients : UserModify(c)
  \/ \E c \in Clients : UserRemove(c)
  \/ \E c \in Clients : UserClear(c)
  \/ \E c \in Clients : RecvSync(c)
  \/ \E c \in Clients : ResolveSync(c)
  \/ \E c \in Clients : ResolveAdded(c)
  \/ \E c \in Clients : OtherAdded(c)
  \/ \E c \in Clients : OtherModified(c)
  \/ \E c \in Clients : OtherRemoved(c)
  \/ \E c \in Clients : OtherClear(c)
  \/ \E c \in Clients : OtherSync(c)
  \/ \E c \in Clients : OtherBadAdded(c)
  \/ \E c \in Clients : OtherBadSync(c)
  \/ \E c \in Clients : RejectAdded(c)
  \/ \E c \in Clients : RejectSync(c)

SpecFault == Init /\ [][NextFault]_vars

\* A's component from its first render on, in a session whose other members are
\* not modelled.
InitLife ==
  /\ members = {"A"}
  /\ canvas = [c \in Clients |-> <<>>]
  /\ gen = [c \in Clients |-> 0]
  /\ chan = [c \in Clients |-> <<>>]
  /\ pending = [c \in Clients |-> <<>>]
  /\ ops = MaxSoloOps
  /\ inj = MaxInject
  /\ last = NoRun
  /\ prev = NoRun
  /\ hist = [c \in Clients |-> {}]
  /\ preSync = FALSE
  /\ life = [c \in Clients |-> Mounted]

NextLife ==
  \/ \E c \in Clients : InitCall(c)
  \/ \E c \in Clients : InitResume(c)
  \/ \E c \in Clients : Teardown(c)
  \/ \E c \in Clients : UserAdd(c)
  \/ \E c \in Clients : UserModify(c)
  \/ \E c \in Clients : UserRemove(c)
  \/ \E c \in Clients : UserClear(c)
  \/ \E c \in Clients : RecvSync(c)
  \/ \E c \in Clients : ResolveSync(c)
  \/ \E c \in Clients : ResolveAdded(c)
  \/ \E c \in Clients : OtherAdded(c)
  \/ \E c \in Clients : OtherModified(c)
  \/ \E c \in Clients : OtherRemoved(c)
  \/ \E c \in Clients : OtherClear(c)
  \/ \E c \in Clients : OtherSync(c)

SpecLife == InitLife /\ [][NextLife]_vars

\* ------------------------------------------------------------- properties
SyncKinds == {"object:added", "object:modified", "object:removed"}

\* What a replica shows: the identity and attributes of each object it holds.
View(c) == {toJSON(canvas[c][k]) : k \in 1..Len(canvas[c])}

\* Every emitted event has been delivered and applied.
Delivered == \A c \in members : chan[c] = <<>> /\ pending[c] = <<>>

Edited(c) == {h[2] : h \in hist[c]}

\* C1: two clients that start from the same snapshot and then make user edits on
\* disjoint sets of objects hold, once every emitted event has been delivered and
\* applied, the same identities with the same attributes.
C1_DisjointEditsConverge ==
  (Delivered /\ ~preSync /\ Edited("A") \cap Edited("B") = {})
    => View("A") = View("B")

\* C2: every user-caused add, modify or remove of a stored object emits exactly one
\* event of the matching kind carrying the object's identity, whatever the origin
\* of the object.
C2_UserMutationEmitsOne ==
  last.op \in {"userAdd", "userModify", "userRemove"}
    => /\ Len(last.out) = 1
       /\ last.out[1].kind = last.msg.kind
       /\ last.out[1].id = last.msg.id

\* C3: receiving or applying an inbound Added, Modified or Removed event never
\* makes the client emit an event.
C3_NoEchoIncremental ==
  last.op \in {"recvAdded", "applyAdded", "applyModified", "applyRemoved"}
    => last.out = <<>>

\* An inbound Removed took out an object this client had drawn itself.
C3_Witness ==
  /\ last.op = "applyRemoved"
  /\ last.hit
  /\ last.msg.id = generateId(last.who, 1)

\* C4: applying an inbound snapshot or an inbound clear never makes the client
\* emit an event, whatever the store held before.
C4_NoEchoBulk ==
  last.op \in {"applySync", "applyClear"} => last.out = <<>>

\* C5: a user-triggered clear empties the store and broadcasts a canvas:clear.
C5_UserClearBroadcasts ==
  last.op = "userClear"
    => /\ canvas[last.who] = <<>>
       /\ \E k \in 1..Len(last.out) : last.out[k].kind = "canvas:clear"

\* C6: when both clients have modified the same object and every emitted event
\* has been delivered and applied, both hold the same attributes for it.
C6_SameObjectConverges ==
  (Delivered /\ ~preSync)
    => \A h \in hist["A"] \cap hist["B"] :
         h[1] = "modified"
           => \A a \in View("A"), b \in View("B") :
                (a.id = h[2] /\ b.id = h[2]) => a.attrs = b.attrs

\* C7: after an inbound Added for identity i has been applied, whether i was
\* absent, already present, or added meanwhile by an earlier pending delivery of
\* the same event, the store holds exactly one object with identity i.
C7_AddedIdempotent ==
  (last.op = "applyAdded" /\ last.msg.id # NoId)
    => Cardinality({k \in 1..Len(canvas[last.who]) : canvas[last.who][k].id = last.msg.id}) = 1

\* The second delivery: the identity was already in the store when it was applied.
C7_Witness == last.op = "applyAdded" /\ last.hit /\ last.msg.id # NoId

\* C8: Modified(E1) then Modified(E2) on a stored object leaves it with E2's
\* attributes and with no attribute that E1 named and E2 does not.
C8_LastWriterWins ==
  ( /\ last.op = "applyModified" /\ last.hit
    /\ prev.op = "applyModified" /\ prev.hit
    /\ prev.who = last.who /\ prev.msg.id = last.msg.id )
    => LET x == canvas[last.who][Find(canvas[last.who], last.msg.id)]
           E1 == prev.msg.attrs
           E2 == last.msg.attrs
       IN /\ \A k \in DOMAIN E2 : x.attrs[k] = E2[k]
          /\ \A k \in DOMAIN E1 \ DOMAIN E2 : x.attrs[k] = DefaultBag[k]

\* C9: once a snapshot of N objects has been applied, the store holds exactly
\* those N objects, same identities and attributes, in the snapshot's order.
C9_FullResync ==
  last.op = "applySync"
    => [k \in 1..Len(canvas[last.who]) |-> toJSON(canvas[last.who][k])] = last.msg.objects

\* A snapshot with objects was applied over a store that was not empty.
C9_Witness == last.op = "applySync" /\ last.hit /\ last.msg.objects # <<>>

\* C10: every Added, Modified or Removed event a client emits carries an identity.
C10_EmittedHasIdentity ==
  \A k \in 1..Len(last.out) : last.out[k].kind \in SyncKinds => last.out[k].id # NoId

\* A drawn object, created without an identity, was announced.
C10_Witness == last.op = "userAdd" /\ Len(last.out) = 1 /\ last.out[1].kind = "object:added"

\* The identities a store holds, in store order.
IdsOf(objs) == [k \in 1..Len(objs) |-> objs[k].id]

\* C11: no user gesture and no inbound Added, Modified or Removed changes the
\* identity of an object that stays in the store: a modification leaves every
\* identity where it was, an addition leaves the identities already there, a
\* removal only takes one identity out.
C11_IdentityImmutable ==
  [][\A c \in Clients :
       LET old == IdsOf(canvas[c])
           new == IdsOf(canvas'[c])
       IN /\ last'.who # c => new = old
          /\ (last'.who = c /\ last'.op \in {"userModify", "applyModified", "recvAdded"}) => new = old
          /\ (last'.who = c /\ last'.op \in {"userAdd", "applyAdded"})
               => (Len(new) >= Len(old) /\ SubSeq(new, 1, Len(old)) = old)
          /\ (last'.who = c /\ last'.op \in {"userRemove", "applyRemoved"})
               => (new = old \/ \E k \in 1..Len(old) : new = RemoveAt(old, k))]_vars

\* An inbound Modified overwrote the attributes of an object this client had drawn.
C11_Witness ==
  /\ last.op = "applyModified"
  /\ last.hit
  /\ last.msg.id = generateId(last.who, 1)
  /\ \E k \in 1..Len(canvas[last.who]) :
       /\ canvas[last.who][k].id = last.msg.id
       /\ \A a \in DOMAIN last.msg.attrs : canvas[last.who][k].attrs[a] = last.msg.attrs[a]

\* C12: after an inbound canvas:clear has been applied the store is empty,
\* whatever objects it held and wherever they came from.
C12_ClearEmpties == last.op = "applyClear" => canvas[last.who] = <<>>

\* The clear found objects in the store.
C12_Witness == last.op = "applyClear" /\ last.hit /\ canvas[last.who] = <<>>

\* C14: an inbound Added, Modified or Removed whose payload has no identity
\* leaves the store as it was and emits nothing.
C14_MalformedDropped ==
  [][(last'.op \in {"recvAdded", "applyAdded", "applyModified", "applyRemoved"} /\ last'.msg.id = NoId)
       => (canvas' = canvas /\ last'.out = <<>>)]_vars

\* C15: an inbound Modified or Removed whose identity no stored object has leaves
\* the store unchanged, creates nothing, queues nothing and emits nothing.
C15_UnknownIdentityNoOp ==
  [][(last'.op \in {"applyModified", "applyRemoved"} /\ ~last'.hit)
       => (canvas' = canvas /\ gen' = gen /\ pending' = pending /\ last'.out = <<>>)]_vars

\* Such an event named an identity while the store held other objects.
C15_Witness ==
  /\ last.op \in {"applyModified", "applyRemoved"}
  /\ ~last.hit
  /\ last.msg.id # NoId
  /\ canvas[last.who] # <<>>

\* C18: inbound events take effect in the order they were received.  A Removed(i)
\* handled between the receipt of Added(i) and its application leaves no object
\* i; a Modified(i) handled there leaves i with the modified attributes; a
\* Modified or Removed handled between the receipt of a snapshot and its
\* application is still in effect after the application.
C18_ReceiveOrder ==
  LET c == last.who
      objs == canvas[c]
      Agrees(o, m) == \A a \in DOMAIN m.attrs : o.attrs[a] = m.attrs[a]
      Between == prev.who = c /\ prev.msg.id # NoId
  IN /\ (last.op = "applyAdded" /\ prev.op = "applyRemoved" /\ Between /\ prev.msg.id = last.msg.id)
          => Find(objs, last.msg.id) = 0
     /\ (last.op = "applyAdded" /\ prev.op = "applyModified" /\ Between /\ prev.msg.id = last.msg.id)
          => (Find(objs, last.msg.id) # 0 /\ Agrees(objs[Find(objs, last.msg.id)], prev.msg))
     /\ (last.op = "applySync" /\ prev.op = "applyRemoved" /\ Between /\ prev.hit)
          => Find(objs, prev.msg.id) = 0
     /\ (last.op = "applySync" /\ prev.op = "applyModified" /\ Between /\ prev.hit)
          => (Find(objs, prev.msg.id) # 0 /\ Agrees(objs[Find(objs, prev.msg.id)], prev.msg))

C16_OutboundOrder ==
  [][last'.op \in {"userAdd", "userModify", "userRemove", "userClear"}
       => LET c == last'.who
              out == last'.out
          IN /\ \A d \in members \ {c} : chan'[d] = chan[d] \o out
             /\ last'.op # "userClear"
                  => (Len(out) <= 1 /\ \A k \in 1..Len(out) : out[k].id = last'.msg.id)
             /\ last'.op = "userClear"
                  => IdsOf(out) = IdsOf(SelectSeq(canvas[c], LAMBDA o : ~o.skipEmit))]_vars

\* One clear removed two objects the user had drawn, and announced both.
C16_Witness ==
  /\ last.op = "userClear"
  /\ Len(last.out) = 2
  /\ last.out[1].id = generateId(last.who, 1)
  /\ last.out[2].id = generateId(last.who, 2)

\* C13: after teardown no inbound message changes the store of the client and
\* the client emits no event.
C13_TeardownReleases ==
  [][\A c \in Clients :
       ~life[c].mounted => (canvas'[c] = canvas[c] /\ (last'.who = c => last'.out = <<>>))]_vars

\* C20: however often init() is invoked, and whenever, a client opens at most one
\* relay connection and registers at most one set of listeners.
C20_InitOnce ==
  \A c \in Clients : life[c].sockets <= 1 /\ life[c].listeners <= 1

\* C17: when the objects of an inbound Added or of a snapshot cannot be built,
\* that event alone is dropped: store, id counter and queues stay as they were,
\* nothing is emitted, the listeners stay registered and every other pending
\* continuation is kept.
C17_FailureDropsOne ==
  [][last'.op \in {"rejectAdded", "rejectSync"}
       => LET c == last'.who
          IN /\ canvas' = canvas /\ gen' = gen /\ chan' = chan
             /\ last'.out = <<>>
             /\ life' = life
             /\ \E i \in 1..Len(pending[c]) :
                  /\ pending[c][i].rejected
                  /\ pending[c][i].msg = last'.msg
                  /\ pending' = [pending EXCEPT ![c] = RemoveAt(@, i)]]_vars

\* An Added failed while the store held objects and another continuation waited.
C17_Witness ==
  /\ last.op = "rejectAdded"
  /\ canvas[last.who] # <<>>
  /\ \E k \in 1..Len(pending[last.who]) : ~pending[last.who][k].rejected

====
